---- MODULE Spec2Model ----
(***************************************************************************)
(* Model of the page-load orchestration of web-profiler:                   *)
(*   webloader/loader.py        Loader.load_pages, PageResult, LoadResult   *)
(*   webloader/chrome_loader.py ChromeLoader (_load_page, _setup)           *)
(*   phantomjs_loader.py        PhantomJSLoader (_load_page)                *)
(*   tools/screenshot_generator.py main                                     *)
(* A URL is a sequence of one-character strings.  Python's None is the     *)
(* string "None".                                                          *)
(***************************************************************************)
EXTENDS Integers, Sequences, FiniteSets, TLC

\* ------------------------------------------------------------------ bounds
MaxUrls == 2
MaxTrials == 2
MaxRetries == 1
MaxWork == 2
MaxLen == 3
MaxUrlLen == 5
MaxTimeout == 1
MaxDuration == 7

\* ------------------------------------------------------- program constants
None == "None"
SUCCESS == "SUCCESS"
FAILURE_TIMEOUT == "FAILURE_TIMEOUT"
FAILURE_UNKNOWN == "FAILURE_UNKNOWN"
PARTIAL_SUCCESS == "PARTIAL_SUCCESS"
FAILURE_NOT_ACCESSIBLE == "FAILURE_NOT_ACCESSIBLE"
FAILURE_UNSET == "FAILURE_UNSET"
ToolRetries == 3
Grace == 5

\* ------------------------------------------------------------------- URLs
Range(s) == {s[k] : k \in 1..Len(s)}

Contains(s, sub) ==
    \E k \in 1..(Len(s) - Len(sub) + 1) : SubSeq(s, k, k + Len(sub) - 1) = sub

Http == <<"h", "t", "t", "p", ":", "/", "/">>

SchemeSep == <<":", "/", "/">>

\* Loader._check_url: prepend http:// unless '://' occurs in the URL.
check_url(u) ==
    IF ~Contains(u, SchemeSep) THEN Http \o u ELSE u

\* The part of a URL between '//' and the next '/', '?' or '#', as
\* urlparse.urlsplit cuts it.
Netloc(u) ==
    LET colon == IF ":" \in Range(u)
                 THEN CHOOSE k \in 1..Len(u) :
                        u[k] = ":" /\ \A j \in 1..(k - 1) : u[j] # ":"
                 ELSE 0
        rest == SubSeq(u, colon + 1, Len(u))
    IN IF Len(rest) >= 2 /\ rest[1] = "/" /\ rest[2] = "/"
       THEN LET body == SubSeq(rest, 3, Len(rest))
                stops == {k \in 1..Len(body) : body[k] \in {"/", "?", "#"}}
                stop == IF stops = {} THEN Len(body) + 1
                        ELSE CHOOSE k \in stops : \A j \in stops : k <= j
            IN SubSeq(body, 1, stop - 1)
       ELSE <<>>

\* urlparse.urlparse(url) raises ValueError("Invalid IPv6 URL") when the
\* network location has an unmatched square bracket.
UrlparseRaises(u) ==
    LET n == Range(Netloc(u))
    IN \/ ("[" \in n /\ "]" \notin n)
       \/ ("]" \in n /\ "[" \notin n)

UrlA == <<"a">>
UrlB == Http \o <<"b">>
UrlBad == <<"c", ":", "/", "/", "[">>

UrlPool == {UrlA, UrlB, UrlBad}

NormUrls == {check_url(u) : u \in UrlPool}

UrlLists == UNION {[1..k -> UrlPool] : k \in 0..MaxUrls}

\* ---------------------------------------------------------------- results
\* LoadResult.__init__
LoadResult(status, u, final_url, time, size, har, raw) ==
    [status |-> status, url |-> u, final_url |-> final_url, time |-> time,
     size |-> size, har |-> har, raw |-> raw]

Truthy_Always(v) ==
    TRUE

\* Python truth value of an optional number: None and 0 are false.
Truthy(v) ==
    v \notin {None, "0"}

SelectSuccess(load_results) ==
    SelectSeq(load_results, LAMBDA r : r.status = SUCCESS)

RECURSIVE CollectTimes(_)
CollectTimes(rs) ==
    IF rs = <<>> THEN <<>>
    ELSE (IF Truthy(Head(rs).time) THEN <<Head(rs).time>> ELSE <<>>)
         \o CollectTimes(Tail(rs))

RECURSIVE CollectSizes(_)
CollectSizes(rs) ==
    IF rs = <<>> THEN <<>>
    ELSE (IF Truthy(Head(rs).size) THEN <<Head(rs).size>> ELSE <<>>)
         \o CollectSizes(Tail(rs))

DerivedStatus_LastWins(load_results) ==
    IF load_results = <<>> THEN FAILURE_UNSET
    ELSE IF load_results[Len(load_results)].status = SUCCESS THEN SUCCESS
    ELSE FAILURE_UNKNOWN

DerivedStatus_AnySuccess(load_results) ==
    LET was_a_success == \E k \in 1..Len(load_results) : load_results[k].status = SUCCESS
    IN IF load_results = <<>> THEN FAILURE_UNSET
       ELSE IF was_a_success THEN SUCCESS
       ELSE FAILURE_UNKNOWN

\* PageResult.__init__, the status derived from the load results
\* (FAILURE_UNSET when the list is empty or absent).
DerivedStatus(load_results) ==
    LET was_a_success == \E k \in 1..Len(load_results) : load_results[k].status = SUCCESS
        was_a_failure == \E k \in 1..Len(load_results) : load_results[k].status # SUCCESS
    IN IF load_results = <<>> THEN FAILURE_UNSET
       ELSE IF was_a_failure /\ was_a_success THEN PARTIAL_SUCCESS
       ELSE IF was_a_success THEN SUCCESS
       ELSE FAILURE_UNKNOWN

\* PageResult.__init__(url, status, load_results); status None = not given.
PageResult(u, status, load_results) ==
    [url |-> u,
     status |-> IF status # None THEN status ELSE DerivedStatus(load_results),
     times |-> CollectTimes(SelectSuccess(load_results)),
     sizes |-> CollectSizes(SelectSuccess(load_results))]

\* ---------------------------------------------------------------- backends
Loaders == {"ChromeLoader", "PhantomJSLoader"}

\* ChromeLoader._load_page: what the capturer subprocess does under the alarm.
ChromeEvents == {"ok", "TimeoutError", "CalledProcessError", "Exception"}

ChromeLoader_load_page_TimedFailure(u, ev) ==
    IF ev = "TimeoutError"
    THEN LoadResult(FAILURE_TIMEOUT, u, u, "2", None, None, None)
    ELSE IF ev \in {"CalledProcessError", "Exception"}
    THEN LoadResult(FAILURE_UNKNOWN, u, None, None, None, None, None)
    ELSE LoadResult(SUCCESS, u, None, None, None, "/dev/null", None)

ChromeLoader_load_page(u, ev) ==
    IF ev = "TimeoutError"
    THEN LoadResult(FAILURE_TIMEOUT, u, None, None, None, None, None)
    ELSE IF ev \in {"CalledProcessError", "Exception"}
    THEN LoadResult(FAILURE_UNKNOWN, u, None, None, None, None, None)
    ELSE LoadResult(SUCCESS, u, None, None, None, "/dev/null", None)

\* PhantomJSLoader._load_page(self, url, outdir) is called by load_pages with
\* three arguments and raises TypeError before its body runs.
LoadPageRaises(ld) == ld = "PhantomJSLoader"

LoadPageEvents(ld) ==
    IF ld = "ChromeLoader" THEN ChromeEvents ELSE {"TypeError"}

\* ChromeLoader._setup returns False when Xvfb or Chrome cannot be started;
\* Loader._setup (inherited by PhantomJSLoader) returns True.
SetupReturns(ld) ==
    IF ld = "ChromeLoader" THEN BOOLEAN ELSE {TRUE}

\* Loader._check_protocol_available: the outcome of requests.get and the
\* scheme comparison.
ProbeEvents ==
    {"same_scheme", "other_scheme", "ConnectionError", "Timeout",
     "TimeoutError", "Exception"}

check_protocol_available(ev) == ev = "same_scheme"

\* ------------------------------------------------------------------- state
VARIABLES
    \* options of the Loader instance and how it is driven
    entry, loader, num_trials, retries_per_trial, restart_on_fail,
    check_protocol_availability,
    \* Loader fields
    _urls, _load_results, _page_results, _num_restarts,
    \* position in load_pages / main and its locals
    pc, urls, idx, url, i, tries_so_far,
    \* observation of the current run
    input_error, submitted, run, last_call, trial, url_hist, url_attempts,
    at_start,
    \* the trial index under which each entry of _load_results was recorded
    trial_index,
    \* state of the function-level specifications (PageResult.__init__,
    \* Loader._check_url, Timeout around the capturer)
    aux

config == <<entry, loader, num_trials, retries_per_trial, restart_on_fail,
            check_protocol_availability>>
fields == <<_urls, _load_results, _page_results, _num_restarts>>
locals == <<urls, idx, url, i, tries_so_far>>
main == <<config, fields, pc, locals, input_error, submitted, run, last_call,
          trial, url_hist, url_attempts, at_start, trial_index>>
vars == <<main, aux>>

NoAux == [kind |-> None]

NoRun == [setup_ok |-> None, n_setup |-> 0, n_teardown |-> 0, n_probe |-> 0,
          n_unknown |-> 0, n_skipped |-> 0, aborted |-> FALSE,
          prev |-> <<None, None>>]

\* The run record when one more backend call is made: the operations of the
\* two calls before it are kept.
Called == [run EXCEPT !.prev = <<run.prev[2], last_call.op>>]

NoCall == [op |-> None, ret |-> None]

NoTrial == [open |-> FALSE, url |-> <<>>, i |-> 0, outcomes |-> <<>>,
            recorded |-> <<>>, before |-> 0]

NoUrlHist == [u \in NormUrls |->
                [probes |-> {}, last_probe |-> None, attempted |-> FALSE,
                 last_attempted |-> FALSE, processed |-> 0]]

Snapshot == [urls |-> _urls, load_results |-> _load_results,
             page_results |-> _page_results, num_restarts |-> _num_restarts]

Str(b) == IF b THEN "True" ELSE "False"

\* Loader.__init__, with the options drawn from the bounded sets; the tool
\* builds PhantomJSLoader(restart_on_fail=True, retries_per_trial=3).
Init ==
    /\ entry \in {"api", "tool"}
    /\ num_trials \in 0..MaxTrials
    /\ IF entry = "tool"
       THEN /\ loader = "PhantomJSLoader"
            /\ retries_per_trial = ToolRetries
            /\ restart_on_fail = TRUE
            /\ check_protocol_availability = TRUE
            /\ pc = "main"
       ELSE /\ loader \in Loaders
            /\ retries_per_trial \in 0..MaxRetries
            /\ restart_on_fail \in BOOLEAN
            /\ check_protocol_availability \in BOOLEAN
            /\ pc = "idle"
    /\ _urls = <<>>
    /\ _load_results = [u \in NormUrls |-> <<>>]
    /\ _page_results = <<>>
    /\ _num_restarts = 0
    /\ urls = <<>>
    /\ idx = 0
    /\ url = <<>>
    /\ i = 0
    /\ tries_so_far = 0
    /\ input_error = FALSE
    /\ submitted = 0
    /\ run = NoRun
    /\ last_call = NoCall
    /\ trial = NoTrial
    /\ url_hist = NoUrlHist
    /\ url_attempts = 0
    /\ at_start = [urls |-> <<>>, load_results |-> [u \in NormUrls |-> <<>>],
                   page_results |-> <<>>, num_restarts |-> 0]
    /\ trial_index = [u \in NormUrls |-> <<>>]
    /\ aux = NoAux


\* ------------------------------------------------- decisions of load_pages
SetupGate_Return(ok) ==
    IF ok THEN "next_url" ELSE "done"

SetupGate_Ignore(ok) ==
    "next_url"

\* `if not self._setup(): return` inside try/finally.
SetupGate(ok) ==
    IF ok THEN "next_url" ELSE "teardown"

NoUrls_Never(us) ==
    FALSE

\* screenshot_generator.main: `if len(urls) == 0`
NoUrls(us) ==
    Len(us) = 0

Inaccessible_Never(ret) ==
    FALSE

\* `... and not self._check_protocol_available(url)`
Inaccessible(ret) ==
    ~ret

ProbeWanted_Always ==
    TRUE

\* `self._check_protocol_availability and ...`
ProbeWanted ==
    check_protocol_availability

IsSuccess(result) ==
    result.status = SUCCESS

LastTry_Never(tries) ==
    FALSE

\* `elif tries_so_far > self._retries_per_trial`
LastTry(tries) ==
    tries > retries_per_trial

WhileContinues_OneMore(tries) ==
    tries <= retries_per_trial + 1

\* `while tries_so_far <= self._retries_per_trial`
WhileContinues(tries) ==
    tries <= retries_per_trial

Records_LastTwo(result, tries) ==
    IsSuccess(result) \/ tries >= retries_per_trial

Records_Every(result, tries) ==
    TRUE

Records_FirstFailure(result, tries) ==
    IsSuccess(result) \/ tries = 1

\* The result is appended on success, or on failure at the last try.
Records(result, tries) ==
    IsSuccess(result) \/ LastTry(tries)

NeedsRestart_IfRetryLeft(result) ==
    /\ result.status = FAILURE_UNKNOWN
    /\ restart_on_fail
    /\ tries_so_far + 1 <= retries_per_trial

NeedsRestart_IgnoreFlag(result) ==
    result.status = FAILURE_UNKNOWN

NeedsRestart_AnyFailure(result) ==
    result.status # SUCCESS /\ restart_on_fail

\* `result.status == LoadResult.FAILURE_UNKNOWN and self._restart_on_fail`
NeedsRestart(result) ==
    result.status = FAILURE_UNKNOWN /\ restart_on_fail

OuterExcept_Propagate ==
    "raised"

OuterExcept_Return ==
    "done"

\* `except Exception` of load_pages: log, then the `finally` clause.
OuterExcept ==
    "teardown"

UrlAt_Reversed(us, k) ==
    us[Len(us) + 1 - k]

\* `for url in urls`: the k-th URL the loop takes
UrlAt(us, k) ==
    us[k]

RestartResume_Checked(ok, next) ==
    IF ok THEN next ELSE "teardown"

\* `self._setup()` of a restart is a bare call: whatever it returns, control
\* goes where the loops take it next.
RestartResume(ok, next) ==
    next

\* Where control goes when trial k is about to start.
AfterTrial(k) ==
    IF k < num_trials THEN "attempt" ELSE "summary"

\* dict assignment d[k] = v
Put(d, k, v) ==
    [x \in (DOMAIN d) \cup {k} |-> IF x = k THEN v ELSE d[x]]

\* ----------------------------------------------------------------- actions
StartRun(us) ==
    /\ urls' = us
    /\ submitted' = submitted + Len(us)
    /\ idx' = 0
    /\ url' = <<>>
    /\ i' = 0
    /\ tries_so_far' = 0
    /\ run' = NoRun
    /\ last_call' = NoCall
    /\ trial' = NoTrial
    /\ url_hist' = NoUrlHist
    /\ url_attempts' = 0
    /\ at_start' = Snapshot
    /\ pc' = "setup"
    /\ UNCHANGED <<aux, trial_index, config, fields>>

\* screenshot_generator.main: build the URL list; exit with an error when it
\* is empty, otherwise construct the loader and call load_pages.
Main ==
    /\ pc = "main"
    /\ \E us \in UrlLists :
         IF NoUrls(us)
         THEN /\ input_error' = TRUE
              /\ pc' = "exit"
              /\ UNCHANGED <<aux, trial_index, config, fields, locals, submitted, run,
                             last_call, trial, url_hist, url_attempts, at_start>>
         ELSE /\ StartRun(us)
              /\ UNCHANGED input_error

\* A caller invokes loader.load_pages(urls) on an instance that is not in a
\* run.  Over the life of the instance at most MaxUrls URLs are submitted and
\* at most MaxWork trials are scheduled.
LoadPages ==
    /\ entry = "api"
    /\ pc \in {"idle", "done"}
    /\ \E us \in UrlLists :
         /\ submitted + Len(us) <= MaxUrls
         /\ (submitted + Len(us)) * num_trials <= MaxWork
         /\ StartRun(us)
    /\ UNCHANGED input_error

\* `if not self._setup(): ... return`
Setup ==
    /\ pc = "setup"
    /\ \E ok \in SetupReturns(loader) :
         /\ run' = [Called EXCEPT !.setup_ok = Str(ok), !.n_setup = @ + 1]
         /\ last_call' = [op |-> "setup", ret |-> Str(ok)]
         /\ pc' = SetupGate(ok)
    /\ idx' = 1
    /\ UNCHANGED <<aux, trial_index, config, fields, urls, url, i, tries_so_far, input_error,
                   submitted, trial, url_hist, url_attempts, at_start>>

\* Control after trial index i has ended: the next trial or the summary.
NextTrial(k) ==
    /\ i' = k
    /\ tries_so_far' = 0
    /\ pc' = IF k < num_trials THEN "attempt" ELSE "summary"

\* `for url in urls:` and `url = self._check_url(url)`
NextUrl ==
    /\ pc = "next_url"
    /\ IF idx > Len(urls)
       THEN /\ pc' = "teardown"
            /\ UNCHANGED <<url, i, tries_so_far, url_hist, url_attempts>>
       ELSE LET u == check_url(UrlAt(urls, idx)) IN
            /\ url' = u
            /\ url_hist' = [url_hist EXCEPT ![u].processed = @ + 1,
                                            ![u].last_probe = None,
                                            ![u].last_attempted = FALSE]
            /\ url_attempts' = 0
            /\ IF ProbeWanted
               THEN /\ pc' = "probe"
                    /\ UNCHANGED <<i, tries_so_far>>
               ELSE NextTrial(0)
    /\ UNCHANGED <<aux, trial_index, config, fields, urls, idx, input_error, submitted, run,
                   last_call, trial, at_start>>

\* `not self._check_protocol_available(url)` and the NOT_ACCESSIBLE branch;
\* an exception of urlparse escapes to the outer `except`.
Probe ==
    /\ pc = "probe"
    /\ IF UrlparseRaises(url)
       THEN /\ run' = [Called EXCEPT !.n_probe = @ + 1, !.aborted = TRUE]
            /\ last_call' = [op |-> "probe", ret |-> "raise"]
            /\ pc' = OuterExcept
            /\ UNCHANGED <<fields, idx, i, tries_so_far, url_hist>>
       ELSE \E ev \in ProbeEvents :
            LET ret == check_protocol_available(ev) IN
            /\ run' = [Called EXCEPT !.n_probe = @ + 1,
                                  !.n_skipped = IF Inaccessible(ret)
                                                THEN @ + 1 ELSE @]
            /\ last_call' = [op |-> "probe", ret |-> Str(ret)]
            /\ url_hist' = [url_hist EXCEPT ![url].probes = @ \cup {ret},
                                            ![url].last_probe = Str(ret)]
            /\ IF Inaccessible(ret)
               THEN /\ _urls' = Append(_urls, url)
                    /\ _page_results' =
                         Put(_page_results, url,
                             PageResult(url, FAILURE_NOT_ACCESSIBLE, <<>>))
                    /\ idx' = idx + 1
                    /\ pc' = "next_url"
                    /\ UNCHANGED <<_load_results, _num_restarts, i,
                                   tries_so_far>>
               ELSE /\ NextTrial(0)
                    /\ UNCHANGED <<fields, idx>>
    /\ UNCHANGED <<aux, trial_index, config, urls, url, input_error, submitted, trial,
                   url_attempts, at_start>>

OpenTrial ==
    IF trial.open THEN trial
    ELSE [open |-> TRUE, url |-> url, i |-> i, outcomes |-> <<>>,
          recorded |-> <<>>, before |-> Len(_load_results[url])]

\* One pass of the `while` body: `result = self._load_page(url, outdir, i)`,
\* the recording of the result, and the `except Exception` of the trial.
Attempt ==
    /\ pc = "attempt"
    /\ \E ev \in LoadPageEvents(loader) :
         LET tries == tries_so_far + 1 IN
         /\ url_hist' = [url_hist EXCEPT ![url].attempted = TRUE,
                                         ![url].last_attempted = TRUE]
         /\ url_attempts' = url_attempts + 1
         /\ IF LoadPageRaises(loader)
            THEN /\ run' = Called
                 /\ last_call' = [op |-> "attempt", ret |-> "raise"]
                 /\ trial' = [OpenTrial EXCEPT !.outcomes = Append(@, "raise"),
                                               !.open = FALSE]
                 /\ NextTrial(i + 1)
                 /\ UNCHANGED <<fields, trial_index>>
            ELSE LET result == ChromeLoader_load_page(url, ev)
                     rec == Records(result, tries)
                     restart == ~IsSuccess(result) /\ NeedsRestart(result)
                     again == ~IsSuccess(result) /\ WhileContinues(tries)
                 IN
                 /\ run' = [Called EXCEPT
                              !.n_unknown =
                                 IF result.status = FAILURE_UNKNOWN
                                 THEN @ + 1 ELSE @]
                 /\ last_call' = [op |-> "attempt", ret |-> result.status]
                 /\ _urls' = IF rec THEN Append(_urls, url) ELSE _urls
                 /\ _load_results' =
                      IF rec
                      THEN [_load_results EXCEPT ![url] = Append(@, result)]
                      ELSE _load_results
                 /\ trial_index' =
                      IF rec
                      THEN [trial_index EXCEPT ![url] = Append(@, i)]
                      ELSE trial_index
                 /\ trial' = [OpenTrial EXCEPT
                                !.outcomes = Append(@, result.status),
                                !.recorded = IF rec THEN Append(@, result)
                                             ELSE @,
                                !.open = restart \/ again]
                 /\ IF restart
                    THEN /\ pc' = "restart_teardown"
                         /\ tries_so_far' = tries
                         /\ UNCHANGED i
                    ELSE IF again
                    THEN /\ pc' = "attempt"
                         /\ tries_so_far' = tries
                         /\ UNCHANGED i
                    ELSE NextTrial(i + 1)
                 /\ UNCHANGED <<_page_results, _num_restarts>>
    /\ UNCHANGED <<aux, config, urls, idx, url, input_error, submitted, at_start>>

\* `self._teardown()` of a restart
RestartTeardown ==
    /\ pc = "restart_teardown"
    /\ run' = [Called EXCEPT !.n_teardown = @ + 1]
    /\ last_call' = [op |-> "teardown", ret |-> None]
    /\ pc' = "restart_setup"
    /\ UNCHANGED <<aux, trial_index, config, fields, locals, input_error, submitted, trial,
                   url_hist, url_attempts, at_start>>

\* `self._setup()` of a restart (return value unused) and
\* `self._num_restarts += 1`, then back to the `while` test.
RestartSetup ==
    /\ pc = "restart_setup"
    /\ \E ok \in SetupReturns(loader) :
         /\ last_call' = [op |-> "setup", ret |-> Str(ok)]
         /\ pc' = RestartResume(ok, IF WhileContinues(tries_so_far)
                                    THEN "attempt" ELSE AfterTrial(i + 1))
    /\ IF WhileContinues(tries_so_far)
       THEN UNCHANGED <<i, tries_so_far>>
       ELSE i' = i + 1 /\ tries_so_far' = 0
    /\ _num_restarts' = _num_restarts + 1
    /\ trial' = [trial EXCEPT !.open = WhileContinues(tries_so_far)]
    /\ run' = [Called EXCEPT !.n_setup = @ + 1]
    /\ UNCHANGED <<aux, trial_index, config, _urls, _load_results, _page_results, urls, idx,
                   url, input_error, submitted, url_hist, url_attempts, at_start>>

\* `self._page_results[url] = PageResult(url, load_results=...)`
Summary ==
    /\ pc = "summary"
    /\ _page_results' =
         Put(_page_results, url, PageResult(url, None, _load_results[url]))
    /\ idx' = idx + 1
    /\ pc' = "next_url"
    /\ trial' = NoTrial
    /\ url_attempts' = 0
    /\ UNCHANGED <<aux, trial_index, config, _urls, _load_results, _num_restarts, urls, url, i,
                   tries_so_far, input_error, submitted, run, last_call,
                   url_hist, at_start>>

\* `finally: self._teardown()`
Teardown ==
    /\ pc = "teardown"
    /\ run' = [Called EXCEPT !.n_teardown = @ + 1]
    /\ last_call' = [op |-> "teardown", ret |-> None]
    /\ pc' = "done"
    /\ idx' = 0
    /\ url' = <<>>
    /\ i' = 0
    /\ tries_so_far' = 0
    /\ UNCHANGED <<aux, trial_index, config, fields, urls, input_error, submitted, trial,
                   url_hist, url_attempts, at_start>>

\* main after load_pages returned: the results are pickled and main ends.
ToolExit ==
    /\ entry = "tool"
    /\ pc = "done"
    /\ pc' = "exit"
    /\ UNCHANGED <<aux, trial_index, config, fields, locals, input_error, submitted, run,
                   last_call, trial, url_hist, url_attempts, at_start>>

Next ==
    \/ Main
    \/ LoadPages
    \/ Setup
    \/ NextUrl
    \/ Probe
    \/ Attempt
    \/ RestartTeardown
    \/ RestartSetup
    \/ Summary
    \/ Teardown
    \/ ToolExit

Spec == Init /\ [][Next]_vars

\* The steps load_pages takes by itself once it has been called.  The code is
\* sequential and each backend call returns or raises, so a step that is
\* possible is eventually taken; a caller, on the other hand, need not call
\* load_pages again.
RunStep ==
    \/ Setup
    \/ NextUrl
    \/ Probe
    \/ Attempt
    \/ RestartTeardown
    \/ RestartSetup
    \/ Summary
    \/ Teardown

SpecLive == Spec /\ WF_vars(RunStep)


\* ------------------------------------------ function-level specifications
\* A Loader that has been constructed and on which nothing is running; the
\* function-level specifications leave it alone.
LoaderIdle ==
    /\ entry = "api"
    /\ loader = "ChromeLoader"
    /\ num_trials = 1
    /\ retries_per_trial = 0
    /\ restart_on_fail = FALSE
    /\ check_protocol_availability = FALSE
    /\ pc = "idle"
    /\ _urls = <<>>
    /\ _load_results = [u \in NormUrls |-> <<>>]
    /\ _page_results = <<>>
    /\ _num_restarts = 0
    /\ urls = <<>>
    /\ idx = 0
    /\ url = <<>>
    /\ i = 0
    /\ tries_so_far = 0
    /\ input_error = FALSE
    /\ submitted = 0
    /\ run = NoRun
    /\ last_call = NoCall
    /\ trial = NoTrial
    /\ url_hist = NoUrlHist
    /\ url_attempts = 0
    /\ at_start = Snapshot
    /\ trial_index = [u \in NormUrls |-> <<>>]

\* LoadResults a backend can hand to PageResult: a success without a load
\* time (ChromeLoader), successes with load time 0 and 2, and the two
\* failures of an attempt.
ResultPool ==
    {LoadResult(SUCCESS, UrlB, None, None, None, "/dev/null", None),
     LoadResult(SUCCESS, UrlB, UrlB, "0", None, None, None),
     LoadResult(SUCCESS, UrlB, UrlB, "2", "7", None, None),
     LoadResult(FAILURE_TIMEOUT, UrlB, None, None, None, None, None),
     LoadResult(FAILURE_UNKNOWN, UrlB, None, None, None, None, None)}

ResultLists == UNION {[1..k -> ResultPool] : k \in 0..MaxLen}

\* PageResult(url, load_results=...) called on a list of LoadResults.
InitPageResult ==
    /\ LoaderIdle
    /\ \E rs \in ResultLists :
         aux = [kind |-> "PageResult", pc |-> "input", load_results |-> rs,
                first |-> None, second |-> None]

Construct ==
    /\ aux.kind = "PageResult"
    /\ aux.pc = "input"
    /\ aux' = [aux EXCEPT !.pc = "built",
                          !.first = PageResult(UrlB, None, aux.load_results)]
    /\ UNCHANGED main

\* A second PageResult built from the same list.
ConstructAgain ==
    /\ aux.kind = "PageResult"
    /\ aux.pc = "built"
    /\ aux' = [aux EXCEPT !.pc = "rebuilt",
                          !.second = PageResult(UrlB, None, aux.load_results)]
    /\ UNCHANGED main

NextPageResult ==
    \/ Construct
    \/ ConstructAgain

SpecPageResult == InitPageResult /\ [][NextPageResult]_vars

\* Loader._check_url called on a string over a letter, ':' and '/'.
UrlAlphabet == {"a", ":", "/"}

UrlStrings == UNION {[1..k -> UrlAlphabet] : k \in 0..MaxUrlLen}

InitCheckUrl ==
    /\ LoaderIdle
    /\ \E u \in UrlStrings :
         aux = [kind |-> "check_url", pc |-> "input", url |-> u,
                checked |-> <<>>, rechecked |-> <<>>]

CheckUrl ==
    /\ aux.kind = "check_url"
    /\ aux.pc = "input"
    /\ aux' = [aux EXCEPT !.pc = "checked", !.checked = check_url(aux.url)]
    /\ UNCHANGED main

\* _check_url applied to its own result.
CheckUrlAgain ==
    /\ aux.kind = "check_url"
    /\ aux.pc = "checked"
    /\ aux' = [aux EXCEPT !.pc = "rechecked",
                          !.rechecked = check_url(aux.checked)]
    /\ UNCHANGED main

NextCheckUrl ==
    \/ CheckUrl
    \/ CheckUrlAgain

SpecCheckUrl == InitCheckUrl /\ [][NextCheckUrl]_vars

\* ChromeLoader._load_page around the capturer: `with Timeout(seconds=
\* self._timeout+5): subprocess.check_output(...)`.  The capturer needs
\* `remaining` more seconds and ends with `retcode`; time passes in whole
\* seconds, as signal.alarm counts it.
InitTimeout ==
    /\ LoaderIdle
    /\ \E t \in 0..MaxTimeout, d \in 0..MaxDuration, rc \in {0, 1} :
         aux = [kind |-> "Timeout", pc |-> "enter", timeout |-> t,
                remaining |-> d, retcode |-> rc, armed |-> FALSE, left |-> 0,
                elapsed |-> 0, proc |-> None, output |-> None,
                raised |-> None, result |-> None]

InAttempt(p) == aux.kind = "Timeout" /\ aux.pc = p

\* `self._timeout+5`
Deadline(t) ==
    t + Grace

\* Timeout.__enter__: signal.signal(SIGALRM, handler); signal.alarm(seconds)
TimeoutEnter ==
    /\ InAttempt("enter")
    /\ aux' = [aux EXCEPT !.armed = Deadline(aux.timeout) > 0,
                          !.left = Deadline(aux.timeout),
                          !.pc = "spawn"]
    /\ UNCHANGED main

\* subprocess.check_output starts the capturer and waits for it.
Spawn ==
    /\ InAttempt("spawn")
    /\ aux' = [aux EXCEPT !.proc = "running", !.pc = "wait"]
    /\ UNCHANGED main

\* One second passes while check_output waits; the capturer writes output.
Second ==
    /\ InAttempt("wait")
    /\ aux.remaining > 0
    /\ aux.armed => aux.left > 0
    /\ aux' = [aux EXCEPT !.remaining = @ - 1,
                          !.left = IF aux.armed THEN @ - 1 ELSE @,
                          !.elapsed = @ + 1,
                          !.output = "partial"]
    /\ UNCHANGED main

\* The capturer ends; check_output returns its output or raises
\* CalledProcessError.
ProcessExit ==
    /\ InAttempt("wait")
    /\ aux.remaining = 0
    /\ aux' = [aux EXCEPT !.proc = "exited", !.output = "complete",
                          !.raised = IF aux.retcode # 0
                                     THEN "CalledProcessError" ELSE None,
                          !.pc = "leave"]
    /\ UNCHANGED main

\* SIGALRM inside the `with` block: Timeout.handle_timeout raises
\* TimeoutError in the waiting thread.  Nothing signals the capturer.
Alarm ==
    /\ aux.kind = "Timeout"
    /\ aux.pc \in {"wait", "leave"}
    /\ aux.armed
    /\ aux.left = 0
    /\ aux' = [aux EXCEPT !.armed = FALSE, !.raised = "TimeoutError",
                          !.pc = "leave"]
    /\ UNCHANGED main

\* Timeout.__exit__: signal.alarm(0); then the except clauses and the
\* LoadResult that _load_page returns.
TimeoutExit ==
    /\ InAttempt("leave")
    /\ aux' = [aux EXCEPT
                 !.armed = FALSE,
                 !.left = 0,
                 !.result = ChromeLoader_load_page(
                              UrlB, IF aux.raised = None THEN "ok"
                                    ELSE aux.raised),
                 !.pc = "returned"]
    /\ UNCHANGED main

NextTimeout ==
    \/ TimeoutEnter
    \/ Spawn
    \/ Second
    \/ ProcessExit
    \/ Alarm
    \/ TimeoutExit

SpecTimeout == InitTimeout /\ [][NextTimeout]_vars


\* ------------------------------------------------------------------ claims
InRun == pc \notin {"idle", "main"}

SetupFailed == InRun /\ run.setup_ok = "False"

FieldsUntouched == Snapshot = at_start

NoAttempt == \A u \in NormUrls : ~url_hist[u].attempted

\* C1: when the initial setup() of a run returns false, the run makes no
\* probe and no backend attempt, appends nothing to the attempted list or the
\* trial-result map, records no PageSummary, and calls teardown() exactly
\* once (no restart, no second setup).
C1_SetupFailureAbortsRun ==
    SetupFailed =>
        /\ run.n_probe = 0
        /\ NoAttempt
        /\ FieldsUntouched
        /\ run.n_setup = 1
        /\ pc \in {"teardown", "done"}
        /\ run.n_teardown = (IF pc = "done" THEN 1 ELSE 0)

C1_Witness ==
    /\ SetupFailed
    /\ pc = "done"
    /\ Len(urls) = MaxUrls
    /\ run.n_teardown = 1

EmptyRun == InRun /\ urls = <<>>

\* C2 as stated: a run given an empty URL list reports an input error and
\* never calls setup() or teardown().
C2_Original ==
    EmptyRun =>
        /\ run.n_setup = 0
        /\ run.n_teardown = 0
        /\ (pc \in {"done", "exit"} => input_error)

\* C2 amended: the empty-list check lives in the screenshot generator's main,
\* which reports the error and exits before any loader call; load_pages
\* itself reports nothing for an empty list, calls setup() once and
\* teardown() once and processes nothing.
C2_EmptyListByEntry ==
    /\ (entry = "tool" /\ EmptyRun) =>
          /\ pc = "exit"
          /\ input_error
          /\ run = NoRun
          /\ last_call = NoCall
    /\ (entry = "api" /\ EmptyRun) =>
          /\ ~input_error
          /\ run.n_probe = 0
          /\ NoAttempt
          /\ FieldsUntouched
          /\ run.n_setup = (IF pc = "setup" THEN 0 ELSE 1)
          /\ run.n_teardown = (IF pc = "done" THEN 1 ELSE 0)
    /\ (input_error => entry = "tool" /\ urls = <<>>)

C2_Witness ==
    /\ entry = "tool"
    /\ pc = "exit"
    /\ urls = <<>>
    /\ input_error

ProbeReturnedFalse ==
    /\ check_protocol_availability
    /\ pc = "probe"
    /\ last_call'.op = "probe"
    /\ last_call'.ret = "False"

\* C3: with protocol checking enabled, a probe that returns false records a
\* NOT_ACCESSIBLE PageSummary for the URL, makes no backend attempt, leaves
\* the URL's trial-result list and the restart counter unchanged, and moves
\* on to the next URL.
C3_InaccessibleSkipsTrials ==
    [][ProbeReturnedFalse =>
          /\ url \in DOMAIN _page_results'
          /\ _page_results'[url].status = FAILURE_NOT_ACCESSIBLE
          /\ _load_results' = _load_results
          /\ _num_restarts' = _num_restarts
          /\ url_hist'[url].attempted = url_hist[url].attempted
          /\ url_attempts' = url_attempts
          /\ run'.n_setup = run.n_setup
          /\ run'.n_teardown = run.n_teardown
          /\ pc' = "next_url"
          /\ idx' = idx + 1]_vars

C3_Witness ==
    /\ last_call = [op |-> "probe", ret |-> "False"]
    /\ pc = "next_url"
    /\ idx = 2
    /\ Len(urls) = 2
    /\ url \in DOMAIN _page_results
    /\ _page_results[url].status = FAILURE_NOT_ACCESSIBLE
    /\ num_trials > 0

RunEnded == pc = "done"

SummarizedThisRun ==
    {u \in DOMAIN _page_results : url_hist[u].processed > 0}

\* C4 as stated: at the end of a run a URL's summary is NOT_ACCESSIBLE iff
\* checking is enabled and the prober returned false for that URL, and then
\* no attempt was made for that URL.
C4_Original ==
    RunEnded =>
        \A u \in SummarizedThisRun :
            /\ (_page_results[u].status = FAILURE_NOT_ACCESSIBLE)
                 <=> (check_protocol_availability /\ FALSE \in url_hist[u].probes)
            /\ (_page_results[u].status = FAILURE_NOT_ACCESSIBLE)
                 => ~url_hist[u].attempted

\* C4 amended: at the end of a run a summarized URL has status NOT_ACCESSIBLE
\* iff checking is enabled and the prober returned false the last time the
\* run probed that URL, and then no attempt was made in that last processing
\* of the URL (an earlier occurrence of the same URL in the list may have
\* been probed true and attempted).
C4_NotAccessibleIffLastProbeFalse ==
    RunEnded =>
        \A u \in SummarizedThisRun :
            /\ (_page_results[u].status = FAILURE_NOT_ACCESSIBLE)
                 <=> (check_protocol_availability
                        /\ url_hist[u].last_probe = "False")
            /\ (_page_results[u].status = FAILURE_NOT_ACCESSIBLE)
                 => ~url_hist[u].last_attempted

C4_Witness ==
    /\ RunEnded
    /\ \E u \in SummarizedThisRun :
         /\ _page_results[u].status = FAILURE_NOT_ACCESSIBLE
         /\ url_hist[u].processed = 2
         /\ url_hist[u].attempted

\* C5: after a run whose initial setup succeeded, every submitted URL has a
\* PageSummary in the summary map (under its normalized form).
C5_EveryUrlSummarized ==
    (RunEnded /\ run.setup_ok = "True") =>
        \A k \in 1..Len(urls) : check_url(urls[k]) \in DOMAIN _page_results

IsFailure(o) == o \in {FAILURE_TIMEOUT, FAILURE_UNKNOWN}

TrialSeen == trial.outcomes # <<>>

TrialClosed == TrialSeen /\ ~trial.open

AllFailed == \A k \in 1..Len(trial.outcomes) : IsFailure(trial.outcomes[k])

\* C6: a trial makes at least 1 and at most 1 + retries_per_trial backend
\* attempts, exactly 1 + retries_per_trial when every attempt returns a
\* failure; so the trials of one URL take between num_trials and
\* num_trials * (1 + retries_per_trial) attempts.
C6_AttemptsPerTrial ==
    /\ TrialSeen =>
          /\ Len(trial.outcomes) >= 1
          /\ Len(trial.outcomes) <= 1 + retries_per_trial
          /\ (trial.open => tries_so_far = Len(trial.outcomes))
    /\ (TrialClosed /\ AllFailed) =>
          Len(trial.outcomes) = 1 + retries_per_trial
    /\ pc = "summary" =>
          /\ url_attempts >= num_trials
          /\ url_attempts <= num_trials * (1 + retries_per_trial)

C6_Witness ==
    /\ TrialClosed
    /\ AllFailed
    /\ retries_per_trial = MaxRetries
    /\ Len(trial.outcomes) = 1 + MaxRetries

HasSuccess == \E k \in 1..Len(trial.outcomes) : trial.outcomes[k] = SUCCESS

\* C7: the first attempt of a trial that returns SUCCESS ends the trial; that
\* result is the only one recorded for the trial and the earlier failed
\* attempts of the trial are not recorded.
C7_FirstSuccessEndsTrial ==
    (TrialSeen /\ HasSuccess) =>
        /\ ~trial.open
        /\ \A k \in 1..Len(trial.outcomes) :
              trial.outcomes[k] = SUCCESS <=> k = Len(trial.outcomes)
        /\ Len(trial.recorded) = 1
        /\ trial.recorded[1].status = SUCCESS
        /\ Len(_load_results[trial.url]) = trial.before + 1
        /\ _load_results[trial.url][trial.before + 1] = trial.recorded[1]

C7_Witness ==
    /\ TrialClosed
    /\ Len(trial.outcomes) = 1 + MaxRetries
    /\ \A k \in 1..MaxRetries : IsFailure(trial.outcomes[k])
    /\ trial.outcomes[1 + MaxRetries] = SUCCESS
    /\ Len(trial.recorded) = 1

\* C8: when every allowed attempt of a trial fails, exactly one result is
\* recorded for the trial, it is that of the last attempt (number
\* 1 + retries_per_trial), and the run goes on to the next trial index.
C8_LastFailureRecorded ==
    /\ (TrialSeen /\ AllFailed /\ Len(trial.outcomes) < 1 + retries_per_trial) =>
          /\ trial.open
          /\ trial.recorded = <<>>
    /\ (TrialSeen /\ AllFailed /\ Len(trial.outcomes) = 1 + retries_per_trial) =>
          /\ Len(trial.recorded) = 1
          /\ trial.recorded[1].status = trial.outcomes[1 + retries_per_trial]
          /\ Len(_load_results[trial.url]) = trial.before + 1
          /\ _load_results[trial.url][trial.before + 1] = trial.recorded[1]
    /\ (TrialClosed /\ AllFailed) =>
          /\ pc \in {"attempt", "summary"}
          /\ (pc = "summary" => i = trial.i + 1 /\ i = num_trials)
          /\ (pc = "attempt" /\ i > 0 => i = trial.i + 1 /\ tries_so_far = 0)

C8_Witness ==
    /\ TrialClosed
    /\ retries_per_trial >= 1
    /\ trial.outcomes[1] = FAILURE_TIMEOUT
    /\ trial.outcomes[1 + retries_per_trial] = FAILURE_UNKNOWN
    /\ Len(trial.recorded) = 1
    /\ trial.recorded[1].status = FAILURE_UNKNOWN

Restarting == pc \in {"restart_teardown", "restart_setup"}

AllSuccess(rs) == \A k \in 1..Len(rs) : rs[k].status = SUCCESS

\* C10 as stated: a summarized URL has status SUCCESS iff every recorded
\* result of the URL is SUCCESS, the empty list included.
C10_Original ==
    RunEnded =>
        \A u \in SummarizedThisRun :
            (_page_results[u].status = SUCCESS) <=> AllSuccess(_load_results[u])

\* C10 amended: a summarized URL has status SUCCESS iff at least one result
\* is recorded for it, every recorded result is SUCCESS, and the URL was not
\* recorded NOT_ACCESSIBLE by its last probe; with no recorded result the
\* status is FAILURE_UNSET.
C10_SuccessIffAllSucceeded ==
    RunEnded =>
        \A u \in SummarizedThisRun :
            LET skipped == check_protocol_availability
                             /\ url_hist[u].last_probe = "False"
            IN /\ (_page_results[u].status = SUCCESS)
                    <=> /\ _load_results[u] # <<>>
                        /\ AllSuccess(_load_results[u])
                        /\ ~skipped
               /\ (_load_results[u] = <<>> /\ ~skipped)
                    => _page_results[u].status = FAILURE_UNSET

C10_Witness ==
    /\ RunEnded
    /\ \E u \in SummarizedThisRun :
         /\ _page_results[u].status = SUCCESS
         /\ Len(_load_results[u]) = 2

Built == aux.kind = "PageResult" /\ aux.pc \in {"built", "rebuilt"}

AllNonSuccess(rs) == \A k \in 1..Len(rs) : rs[k].status # SUCCESS

Successes(rs) == Cardinality({k \in 1..Len(rs) : rs[k].status = SUCCESS})

TimedSuccesses(rs) ==
    Cardinality({k \in 1..Len(rs) :
                   rs[k].status = SUCCESS /\ rs[k].time \notin {None, "0"}})

Aggregated(u) ==
    ~(check_protocol_availability /\ url_hist[u].last_probe = "False")

Processing ==
    pc \in {"probe", "attempt", "restart_teardown", "restart_setup", "summary"}

\* The URL being probed or loaded is the idx-th URL of the caller's list.
UrlOrder ==
    Processing => idx \in 1..Len(urls) /\ url = check_url(urls[idx])

\* The loop moves from one URL to the next one of the list.
Advance ==
    idx' # idx => idx' = idx + 1 \/ pc' \in {"setup", "done"}

\* A step appends at most one entry to the attempted list, and it records a
\* result (or a NOT_ACCESSIBLE summary) for the current URL exactly when it
\* appends that URL to the attempted list.
AppendOnly ==
    /\ _urls' # _urls =>
          /\ _urls' = Append(_urls, url)
          /\ \/ Len(_load_results'[url]) = Len(_load_results[url]) + 1
             \/ /\ url \in DOMAIN _page_results'
                /\ _page_results'[url].status = FAILURE_NOT_ACCESSIBLE
                /\ _load_results' = _load_results
    /\ \A u \in NormUrls :
          _load_results'[u] # _load_results[u] =>
              /\ u = url
              /\ SubSeq(_load_results'[u], 1, Len(_load_results[u]))
                    = _load_results[u]
              /\ Len(_load_results'[u]) = Len(_load_results[u]) + 1
              /\ _urls' = Append(_urls, u)
              /\ trial_index'[u] = Append(trial_index[u], i)

Descents(s) == Cardinality({k \in 1..(Len(s) - 1) : s[k + 1] <= s[k]})

RecordedThisRun(u) ==
    SubSeq(trial_index[u], Len(at_start.load_results[u]) + 1,
           Len(trial_index[u]))

\* C13 as stated: URLs are probed and loaded in the caller's order, the
\* results recorded for a URL are in increasing trial-index order, and the
\* attempted list is only appended to, in the order of recording.
C13_Original ==
    /\ [](UrlOrder /\ \A u \in NormUrls : Descents(trial_index[u]) = 0)
    /\ [][Advance /\ AppendOnly]_vars

\* C13 amended: URLs are probed and loaded in the caller's order and the
\* attempted list is only appended to, in the order of recording; the
\* results one processing of a URL records are in increasing trial-index
\* order, and each further processing of the same URL (a repeated URL, a
\* later run) appends a new block that starts again at the lowest index.
C13_OrderOfRecording ==
    /\ [](/\ UrlOrder
          /\ \A u \in NormUrls :
                /\ Len(trial_index[u]) = Len(_load_results[u])
                /\ \A k \in 1..Len(trial_index[u]) :
                      trial_index[u][k] \in 0..(num_trials - 1)
                /\ Descents(RecordedThisRun(u)) + 1 <= url_hist[u].processed
                      \/ RecordedThisRun(u) = <<>>)
    /\ [][Advance /\ AppendOnly]_vars

C13_Witness ==
    /\ RunEnded
    /\ Len(urls) = 2
    /\ urls[1] = urls[2]
    /\ _urls = <<check_url(urls[1]), check_url(urls[1])>>
    /\ trial_index[check_url(urls[1])] = <<0, 0>>
    /\ at_start.urls = <<>>

LoadPagesReturned == pc = "done" \/ (pc = "exit" /\ ~input_error)

\* C14: on every exit path of a run (normal completion, failed initial
\* setup, an exception caught by the run) teardown() is the last backend
\* operation; no probe, attempt or setup follows it.
C14_TeardownIsLast ==
    /\ [](LoadPagesReturned =>
            /\ last_call.op = "teardown"
            /\ run.n_teardown >= 1)
    /\ [][(LoadPagesReturned /\ pc' # "setup") =>
            /\ last_call' = last_call
            /\ run' = run]_vars

C14_Witness ==
    /\ RunEnded
    /\ run.aborted
    /\ run.setup_ok = "True"
    /\ last_call.op = "teardown"
    /\ run.n_probe = 2

Occurrences(u) == Cardinality({k \in 1..Len(urls) : check_url(urls[k]) = u})

AttemptRaised == last_call.op = "attempt" /\ last_call.ret = "raise"

\* C15: an exception escaping a backend attempt is caught inside the run:
\* the run goes on with the remaining trials and URLs and nothing reaches the
\* caller; only a failed initial setup keeps a run from processing every URL
\* of its list.
C15_OnlySetupFailureStopsRun ==
    /\ AttemptRaised => ~run.aborted /\ pc \notin {"idle", "main", "exit"}
    /\ (RunEnded /\ run.setup_ok = "True") =>
          /\ ~run.aborted
          /\ \A u \in NormUrls :
                /\ url_hist[u].processed = Occurrences(u)
                /\ Occurrences(u) > 0 => u \in DOMAIN _page_results

\* The URL begins with a scheme (one or more characters other than ':' and
\* '/') followed by '://'.
HasSchemePrefix(u) ==
    \E k \in 1..(Len(u) - 3) :
        /\ \A j \in 1..k : u[j] \notin {":", "/"}
        /\ SubSeq(u, k + 1, k + 3) = SchemeSep

\* C16: a URL that does not begin with a scheme:// prefix is normalized by
\* prepending http://, a URL that has the prefix is returned unchanged, and
\* normalizing a normalized URL changes nothing.
C16_NormalizeByPrefix ==
    (aux.kind = "check_url" /\ aux.pc \in {"checked", "rechecked"}) =>
        /\ ~HasSchemePrefix(aux.url) => aux.checked = Http \o aux.url
        /\ HasSchemePrefix(aux.url) => aux.checked = aux.url
        /\ aux.pc = "rechecked" => aux.rechecked = aux.checked

AttemptReturned(status) == last_call.op = "attempt" /\ last_call.ret = status

\* What the two steps of a restart do, and what follows a timed-out attempt.
RestartSteps ==
    /\ pc = "restart_teardown" =>
          /\ pc' = "restart_setup"
          /\ last_call'.op = "teardown"
          /\ run'.n_teardown = run.n_teardown + 1
          /\ run'.n_setup = run.n_setup
    /\ pc = "restart_setup" =>
          /\ pc' \in {"attempt", "summary"}
          /\ last_call'.op = "setup"
          /\ run'.n_setup = run.n_setup + 1
          /\ run'.n_teardown = run.n_teardown
    /\ (AttemptReturned(FAILURE_TIMEOUT) /\ pc = "attempt") =>
          last_call'.op = "attempt"

Started == InRun /\ ~input_error

RestartsThisRun == _num_restarts - at_start.num_restarts

\* C18: a run calls setup() once before any probe or attempt and teardown()
\* once at its end; a teardown() inside the run is always the first half of
\* a restart pair, never a per-URL teardown; so throughout the run the
\* number of setup() calls is 1 + the restarts of the run, and at its end the
\* number of teardown() calls is the same.
C18_OneSetupTeardownPerRun ==
    Started =>
        /\ pc = "setup" => run = NoRun /\ NoAttempt
        /\ pc # "setup" => run.n_setup = 1 + RestartsThisRun
        /\ run.n_teardown =
              RestartsThisRun + (IF pc = "restart_setup" THEN 1 ELSE 0)
                              + (IF LoadPagesReturned THEN 1 ELSE 0)
        /\ last_call.op = "teardown" =>
              pc = "restart_setup" \/ LoadPagesReturned
        /\ (LoadPagesReturned /\ run.setup_ok = "True") =>
              /\ run.n_setup = 1 + RestartsThisRun
              /\ run.n_teardown = 1 + RestartsThisRun

C18_Witness ==
    /\ RunEnded
    /\ run.setup_ok = "True"
    /\ Len(urls) = 2
    /\ RestartsThisRun = 2
    /\ run.n_setup = 3
    /\ run.n_teardown = 3

\* C19: every recorded result with status FAILURE_UNKNOWN carries the
\* backend's diagnostic output in its raw field.
C19_UnknownFailureCarriesRaw ==
    \A u \in NormUrls :
        \A k \in 1..Len(_load_results[u]) :
            _load_results[u][k].status = FAILURE_UNKNOWN
                => _load_results[u][k].raw # None

Expired == aux.raised = "TimeoutError"

\* C20: an attempt runs under a deadline of timeout + 5 seconds; when the
\* deadline expires the attempt returns FAILURE_TIMEOUT whatever the backend
\* has written, the backend process of the attempt has been terminated, and
\* no alarm is pending once the guarded block is left.
C20_DeadlineCancelsAttempt ==
    aux.kind = "Timeout" =>
        /\ aux.elapsed <= aux.timeout + 5
        /\ Expired => aux.elapsed = aux.timeout + 5
        /\ aux.pc = "returned" =>
              /\ ~aux.armed
              /\ Expired <=> aux.result.status = FAILURE_TIMEOUT
              /\ Expired => aux.proc # "running"

RecordedResults ==
    UNION {Range(_load_results[u]) : u \in NormUrls}

\* C21: every recorded result whose status is not SUCCESS (FAILURE_TIMEOUT
\* or FAILURE_UNKNOWN) has neither a load time nor a final URL; a load time
\* is found only on SUCCESS results.
C21_FailuresCarryNoTime ==
    \A r \in RecordedResults :
        /\ r.status # SUCCESS => r.time = None /\ r.final_url = None
        /\ r.time # None => r.status = SUCCESS
        /\ r.status \in {SUCCESS, FAILURE_TIMEOUT, FAILURE_UNKNOWN}

C21_Witness ==
    /\ RunEnded
    /\ \E r1, r2 \in RecordedResults :
         /\ r1.status = FAILURE_TIMEOUT
         /\ r2.status = FAILURE_UNKNOWN
         /\ r1.time = None

RECURSIVE SumOver(_, _)
SumOver(S, f) ==
    IF S = {} THEN 0
    ELSE LET x == CHOOSE y \in S : TRUE
         IN f[x] + SumOver(S \ {x}, f)

ResultsAddedThisRun ==
    SumOver(NormUrls,
            [u \in NormUrls |->
               Len(_load_results[u]) - Len(at_start.load_results[u])])

Raised == \E k \in 1..Len(trial.outcomes) : trial.outcomes[k] = "raise"

\* C23: a trial records at most one result, and exactly one when none of its
\* attempts raises; a trial one of whose attempts raises ends with that
\* attempt and records nothing; so each processing of an accessible URL by a
\* backend that does not raise appends exactly num_trials results to the
\* URL's list.
C23_OneResultPerTrial ==
    /\ TrialSeen =>
          /\ Len(trial.recorded) <= 1
          /\ (TrialClosed /\ ~Raised) => Len(trial.recorded) = 1
          /\ Raised =>
                /\ ~trial.open
                /\ trial.recorded = <<>>
                /\ trial.outcomes[Len(trial.outcomes)] = "raise"
                /\ Len(_load_results[trial.url]) = trial.before
    /\ RunEnded =>
          \A u \in SummarizedThisRun :
              (FALSE \notin url_hist[u].probes) =>
                  Len(_load_results[u]) - Len(at_start.load_results[u])
                    = (IF LoadPageRaises(loader) THEN 0
                       ELSE num_trials * url_hist[u].processed)

C23_Witness ==
    /\ RunEnded
    /\ num_trials = 2
    /\ retries_per_trial = 1
    /\ \E u \in SummarizedThisRun :
         /\ Len(_load_results[u]) = 2
         /\ _load_results[u][1].status = FAILURE_TIMEOUT
         /\ _load_results[u][2].status = SUCCESS

RestartSetupFailed == pc = "restart_setup" /\ last_call'.ret = "False"

\* C24: when the setup() of a restart returns false, the restart counter is
\* still incremented and the run goes on exactly as after a setup() that
\* returned true: to the next attempt, trial or URL, and in the end to the
\* final teardown; it is not recorded as a failed setup of the run.
C24_RestartSetupResultIgnored ==
    /\ [][RestartSetupFailed =>
            /\ last_call'.op = "setup"
            /\ _num_restarts' = _num_restarts + 1
            /\ pc' = (IF tries_so_far <= retries_per_trial THEN "attempt"
                      ELSE IF i + 1 < num_trials THEN "attempt"
                      ELSE "summary")
            /\ run'.setup_ok = "True"
            /\ ~run'.aborted]_vars
    /\ []((last_call.op = "setup" /\ last_call.ret = "False"
              /\ run.n_setup >= 2) =>
            /\ pc \in {"attempt", "summary", "next_url", "probe", "teardown"}
            /\ pc = "teardown" => idx > Len(urls))

C24_Witness ==
    /\ pc = "attempt"
    /\ last_call = [op |-> "setup", ret |-> "False"]
    /\ run.n_setup = 2
    /\ run.setup_ok = "True"
    /\ RestartsThisRun = 1
    /\ i = 1

LastUrl == check_url(urls[Len(urls)])

\* The run went through its whole list and the last attempt it made, the
\* last one of the last trial of the last URL, returned FAILURE_UNKNOWN.
EndedOnUnknown ==
    /\ RunEnded
    /\ urls # <<>>
    /\ run.setup_ok = "True"
    /\ ~run.aborted
    /\ ~LoadPageRaises(loader)
    /\ url_hist[LastUrl].last_attempted
    /\ _load_results[LastUrl] # <<>>
    /\ _load_results[LastUrl][Len(_load_results[LastUrl])].status
          = FAILURE_UNKNOWN

\* C25: with restart_on_fail, a FAILURE_UNKNOWN returned by the last allowed
\* attempt of a trial still leads to the restart, after the result has been
\* recorded; so a run whose very last attempt returns FAILURE_UNKNOWN ends
\* with the calls teardown, setup, teardown, and no other run does.
C25_RestartAfterLastAttempt ==
    /\ (AttemptReturned(FAILURE_UNKNOWN) /\ restart_on_fail
          /\ tries_so_far > retries_per_trial) =>
          /\ pc = "restart_teardown"
          /\ Len(trial.recorded) = 1
          /\ trial.recorded[1].status = FAILURE_UNKNOWN
          /\ _urls # <<>> /\ _urls[Len(_urls)] = url
    /\ (EndedOnUnknown /\ restart_on_fail) =>
          /\ last_call.op = "teardown"
          /\ run.prev = <<"teardown", "setup">>
          /\ RestartsThisRun >= 1
    /\ (RunEnded /\ run.prev = <<"teardown", "setup">>) =>
          EndedOnUnknown /\ restart_on_fail

C25_Witness ==
    /\ EndedOnUnknown
    /\ restart_on_fail
    /\ retries_per_trial = 1
    /\ last_call.op = "teardown"
    /\ run.prev = <<"teardown", "setup">>
    /\ run.n_setup = 2

\* C26: provided every backend call returns or raises, a run of load_pages
\* that has started reaches the state after its final teardown, whatever the
\* backend outcomes.
C26_RunTerminates ==
    (pc = "setup") ~> (pc = "done")

C26_Witness ==
    /\ RunEnded
    /\ restart_on_fail
    /\ retries_per_trial = 1
    /\ num_trials = 1
    /\ url_hist[UrlB].attempted
    /\ run.n_unknown = 2
    /\ RestartsThisRun = 2
    /\ _page_results[UrlB].status = FAILURE_UNKNOWN

====
